---- MODULE Spec2Model ----
(***************************************************************************)
(* Model of src-tauri/src/main.rs: the desktop shell that spawns the       *)
(* Node.js server, waits, builds the tray and the Tauri application, and   *)
(* then dispatches tray, window, command and exit-requested events.        *)
(*                                                                         *)
(* pc is the position of the main thread:                                  *)
(*   "start"        before start_node_server()            (line 89)        *)
(*   "spawned"      NodeServer constructed, before sleep  (line 95)        *)
(*   "slept"        after the sleep, before the tray      (line 98)        *)
(*   "tray_built"   before Builder ... .build()           (line 100)       *)
(*   "loop"         inside .run(), waiting for an event   (line 157)       *)
(*   "exit_take"    ExitRequested handler, lock acquired  (line 162)       *)
(*   "exit_kill"    child taken, before child.kill()      (line 163)       *)
(*   "exit_unlock"  before the MutexGuard is dropped      (line 165)       *)
(*   "exit_prevent" before api.prevent_exit()             (line 166)       *)
(*   "exited"       std::process::exit(0) was called      (line 137)       *)
(*   "panicked"     an expect()/unwrap() panicked on the main thread       *)
(***************************************************************************)
EXTENDS Naturals, FiniteSets, Sequences, TLC

\* Bounds of the model.
MaxInflight == 2
MaxExitRequests == 2

VARIABLES
    pc,            \* position of the main thread (see above)
    faults,        \* whether the toolkit's window operations may return Err
    spawnResult,   \* result of start_node_server(): "none" (not called), "Ok", "Err"
    spawnCount,    \* number of child processes created by Command::spawn
    process,       \* NodeServer.process: "Unmanaged" (no NodeServer yet), "Some", "None"
    locked,        \* NodeServer.process mutex is held (a MutexGuard is alive)
    childState,    \* the OS process: "none", "running", "exited" (by itself), "killed"
    killCount,     \* number of child.kill() calls made
    killInLock,    \* number of child.kill() calls made while the mutex was held
    trayBuilt,     \* SystemTray value constructed
    windowExists,  \* the window labelled "main" exists
    visible,       \* the main window is visible
    focused,       \* the main window has input focus
    inflight,      \* number of check_for_updates futures not yet completed
    updateResult,  \* value returned by the last completed check_for_updates
    lateResult,    \* an update check has completed after the child was taken
    closeSeen,     \* a CloseRequested window event has been handled
    exitRequests,  \* number of RunEvent::ExitRequested delivered
    event,         \* the event most recently dispatched by the event loop
    log            \* set of lines written to stdout / stderr

vars == <<pc, faults, spawnResult, spawnCount, process, locked, childState,
          killCount, killInLock, trayBuilt, windowExists, visible, focused,
          inflight, updateResult, lateResult, closeSeen, exitRequests, event, log>>

Results == {"Ok", "Err"}

\* Results a window operation (show, hide, set_focus) can return.
WindowOpResults == IF faults THEN Results ELSE {"Ok"}

\* Identifiers a MenuItemClick can carry: the five of create_tray_menu and
\* one that the menu does not define.
MenuIds == {"show", "hide", "auto_start", "update", "quit"}
ClickIds == MenuIds \cup {"other"}

PcStartup == {"start", "spawned", "slept", "tray_built"}
PcHandler == {"exit_take", "exit_kill", "exit_unlock", "exit_prevent"}
PcDead == {"exited", "panicked"}

\* ApplicationState lifecycle, read off the position of the main thread.
Lifecycle ==
    CASE pc \in PcStartup -> "Uninitialized"
      [] pc = "loop" -> "Running"
      [] pc \in PcHandler -> "ShuttingDown"
      [] pc = "exited" -> "Terminated"
      [] OTHER -> "Aborted"

Init ==
    /\ pc = "start"
    /\ faults = FALSE
    /\ spawnResult = "none"
    /\ spawnCount = 0
    /\ process = "Unmanaged"
    /\ locked = FALSE
    /\ childState = "none"
    /\ killCount = 0
    /\ killInLock = 0
    /\ trayBuilt = FALSE
    /\ windowExists = FALSE
    /\ visible = FALSE
    /\ focused = FALSE
    /\ inflight = 0
    /\ updateResult = "none"
    /\ lateResult = FALSE
    /\ closeSeen = FALSE
    /\ exitRequests = 0
    /\ event = "none"
    /\ log = {}

\* The same program in an environment whose window operations may fail.
InitFault ==
    /\ pc = "start"
    /\ faults \in BOOLEAN
    /\ spawnResult = "none"
    /\ spawnCount = 0
    /\ process = "Unmanaged"
    /\ locked = FALSE
    /\ childState = "none"
    /\ killCount = 0
    /\ killInLock = 0
    /\ trayBuilt = FALSE
    /\ windowExists = FALSE
    /\ visible = FALSE
    /\ focused = FALSE
    /\ inflight = 0
    /\ updateResult = "none"
    /\ lateResult = FALSE
    /\ closeSeen = FALSE
    /\ exitRequests = 0
    /\ event = "none"
    /\ log = {}

----------------------------------------------------------------------------
\* Startup: main(), lines 87-102 and 155-157.

\* Both cfg branches of start_node_server compiled in: two children.
start_node_server_both_cfg(n) == n + 2

\* start_node_server: exactly one of the two cfg-gated Command::spawn calls
\* is compiled, so a successful call creates one child.
start_node_server(n) == n + 1

\* The spawn error is dropped and startup goes on.
expect_spawn_ignored(r) == "spawned"

\* .expect("Failed to start Node.js server"): Err panics, Ok goes on.
expect_spawn(r) == IF r = "Err" THEN "panicked" ELSE "spawned"

\* Lines 89-92: start_node_server().expect(..), then NodeServer { Some(child) }.
StartNodeServer ==
    /\ pc = "start"
    /\ \E r \in Results :
        /\ spawnResult' = r
        /\ pc' = expect_spawn(r)
        /\ IF r = "Ok"
             THEN /\ spawnCount' = start_node_server(spawnCount)
                  /\ childState' = "running"
             ELSE UNCHANGED <<spawnCount, childState>>
        /\ IF pc' = "spawned"
             THEN /\ process' = (IF r = "Ok" THEN "Some" ELSE "None")
                  /\ log' = log
             ELSE /\ process' = process
                  /\ log' = log \cup {"Failed to start Node.js server"}
    /\ UNCHANGED <<faults, locked, killCount, killInLock, trayBuilt,
                   windowExists, visible, focused, inflight, updateResult,
                   lateResult, closeSeen, exitRequests, event>>

\* Line 95: std::thread::sleep(2 s).
Sleep ==
    /\ pc = "spawned"
    /\ pc' = "slept"
    /\ UNCHANGED <<faults, spawnResult, spawnCount, process, locked,
                   childState, killCount, killInLock, trayBuilt, windowExists,
                   visible, focused, inflight, updateResult, lateResult, closeSeen,
                   exitRequests, event, log>>

\* Line 98: SystemTray::new().with_menu(create_tray_menu()).
CreateTray ==
    /\ pc = "slept"
    /\ pc' = "tray_built"
    /\ trayBuilt' = TRUE
    /\ UNCHANGED <<faults, spawnResult, spawnCount, process, locked,
                   childState, killCount, killInLock, windowExists, visible,
                   focused, inflight, updateResult, lateResult, closeSeen, exitRequests,
                   event, log>>

\* Lines 100-157: Builder ... .build(ctx).expect(..).run(..).  The build
\* creates the window "main"; whether it starts visible and focused is set
\* by the application's configuration, so both are inputs.
Build ==
    /\ pc = "tray_built"
    /\ \E r \in Results, v \in BOOLEAN, f \in BOOLEAN :
        IF r = "Ok"
          THEN /\ f => v
               /\ pc' = "loop"
               /\ windowExists' = TRUE
               /\ visible' = v
               /\ focused' = f
               /\ log' = log
          ELSE /\ ~v /\ ~f
               /\ pc' = "panicked"
               /\ log' = log \cup {"Error while building Tauri application"}
               /\ UNCHANGED <<windowExists, visible, focused>>
    /\ UNCHANGED <<faults, spawnResult, spawnCount, process, locked,
                   childState, killCount, killInLock, trayBuilt, inflight,
                   updateResult, lateResult, closeSeen, exitRequests, event>>

Startup == StartNodeServer \/ Sleep \/ CreateTray \/ Build

----------------------------------------------------------------------------
\* The event loop: tray events (lines 103-142).

Panic == "thread 'main' panicked: called unwrap() on an Err or None value"

\* The window is shown but set_focus() is never called.
show_without_focus(rs, rf, printed) ==
    IF ~windowExists \/ rs = "Err"
      THEN /\ pc' = "panicked"
           /\ log' = log \cup printed \cup {Panic}
           /\ UNCHANGED <<visible, focused>>
      ELSE /\ visible' = TRUE
           /\ focused' = focused
           /\ pc' = pc
           /\ log' = log \cup printed

\* app.get_window("main").unwrap(); window.show().unwrap();
\* window.set_focus().unwrap()  (lines 110-112 and 116-118).
\* rs and rf are the results of show() and set_focus(); printed is what the
\* arm wrote to stdout before it touched the window.
ShowAndFocus(rs, rf, printed) ==
    IF ~windowExists \/ rs = "Err"
      THEN /\ pc' = "panicked"
           /\ log' = log \cup printed \cup {Panic}
           /\ UNCHANGED <<visible, focused>>
      ELSE /\ visible' = TRUE
           /\ IF rf = "Err"
                THEN /\ pc' = "panicked"
                     /\ log' = log \cup printed \cup {Panic}
                     /\ focused' = focused
                ELSE /\ pc' = pc
                     /\ log' = log \cup printed
                     /\ focused' = TRUE

\* window.hide().unwrap()  (lines 83, 122, 146); found tells whether the
\* window was obtained.  A hidden window has no input focus.
Hide(found, rh) ==
    IF ~found \/ rh = "Err"
      THEN /\ pc' = "panicked"
           /\ log' = log \cup {Panic}
           /\ UNCHANGED <<visible, focused>>
      ELSE /\ visible' = FALSE
           /\ focused' = FALSE
           /\ pc' = pc
           /\ log' = log

\* tauri::async_runtime::block_on in place of spawn: the handler does not
\* return to the event loop while the check runs.
tray_update_block_on == "await_update"

\* Lines 130-133: tauri::async_runtime::spawn returns at once, so the
\* "update" arm leaves the main thread in the event loop.
tray_update_spawn == "loop"

\* Lines 104-113: SystemTrayEvent::LeftClick.
TrayLeftClick ==
    /\ pc = "loop"
    /\ event' = "left_click"
    /\ \E rs \in WindowOpResults, rf \in WindowOpResults :
        /\ rs = "Err" => rf = "Ok"
        /\ ShowAndFocus(rs, rf, {"System tray left click"})
    /\ UNCHANGED <<faults, spawnResult, spawnCount, process, locked,
                   childState, killCount, killInLock, trayBuilt, windowExists,
                   inflight, updateResult, lateResult, closeSeen, exitRequests>>

\* The wildcard arm and the "auto_start" arm are missing: such an id is
\* handled by the "show" arm.
match_id_falls_to_show(id) ==
    IF id \in MenuIds \ {"auto_start"} THEN id ELSE "show"

\* Lines 114-139: the arm of match id.as_str() that an id selects; "_" is
\* the wildcard arm.
match_id(id) == IF id \in MenuIds THEN id ELSE "_"

\* Lines 114-140: SystemTrayEvent::MenuItemClick { id }, match id.as_str().
MenuItemClick ==
    /\ pc = "loop"
    /\ \E id \in ClickIds, r1 \in WindowOpResults, r2 \in WindowOpResults :
        /\ event' = id
        /\ CASE match_id(id) = "show" ->
                  /\ r1 = "Err" => r2 = "Ok"
                  /\ ShowAndFocus(r1, r2, {})
                  /\ UNCHANGED inflight
             [] match_id(id) = "hide" ->
                  /\ r2 = "Ok"
                  /\ Hide(windowExists, r1)
                  /\ UNCHANGED inflight
             [] match_id(id) = "auto_start" ->
                  /\ r1 = "Ok" /\ r2 = "Ok"
                  /\ log' = log \cup {"Auto-start toggled"}
                  /\ UNCHANGED <<pc, visible, focused, inflight>>
             [] match_id(id) = "update" ->
                  /\ r1 = "Ok" /\ r2 = "Ok"
                  /\ inflight < MaxInflight
                  /\ inflight' = inflight + 1
                  /\ pc' = tray_update_spawn
                  /\ UNCHANGED <<visible, focused, log>>
             [] match_id(id) = "quit" ->
                  /\ r1 = "Ok" /\ r2 = "Ok"
                  /\ pc' = "exited"
                  /\ inflight' = 0
                  /\ UNCHANGED <<visible, focused, log>>
             [] OTHER ->
                  /\ r1 = "Ok" /\ r2 = "Ok"
                  /\ UNCHANGED <<pc, visible, focused, inflight, log>>
    /\ UNCHANGED <<faults, spawnResult, spawnCount, process, locked,
                   childState, killCount, killInLock, trayBuilt, windowExists,
                   updateResult, lateResult, closeSeen, exitRequests>>

----------------------------------------------------------------------------
\* Window events and commands (lines 54-84 and 143-149).

\* The close is not prevented: the toolkit destroys the window.
close_not_prevented(w) == FALSE

\* Line 147: api.prevent_close() cancels the default handling of the close
\* request, so the window is what it was before the request.
prevent_close(w) == w

\* Lines 143-149: WindowEvent::CloseRequested: hide, then prevent the close.
\* The event comes from the window, so the window is at hand.
CloseRequested ==
    /\ pc = "loop"
    /\ windowExists
    /\ event' = "close_requested"
    /\ closeSeen' = TRUE
    /\ \E rh \in WindowOpResults :
        /\ Hide(TRUE, rh)
        /\ windowExists' = (IF rh = "Ok" THEN prevent_close(windowExists)
                                         ELSE windowExists)
    /\ UNCHANGED <<faults, spawnResult, spawnCount, process, locked,
                   childState, killCount, killInLock, trayBuilt, inflight,
                   updateResult, lateResult, exitRequests>>

\* Lines 81-84: the minimize_to_tray command, invoked from the front end of
\* the window it is given.
MinimizeToTray ==
    /\ pc = "loop"
    /\ windowExists
    /\ event' = "minimize_to_tray"
    /\ \E rh \in WindowOpResults : Hide(TRUE, rh)
    /\ UNCHANGED <<faults, spawnResult, spawnCount, process, locked,
                   childState, killCount, killInLock, trayBuilt, windowExists,
                   inflight, updateResult, lateResult, closeSeen, exitRequests>>

\* Lines 60-61: the check_for_updates command invoked from the front end;
\* an async command runs on the async runtime, not in the event loop.
InvokeCheckForUpdates ==
    /\ pc = "loop"
    /\ windowExists
    /\ inflight < MaxInflight
    /\ event' = "invoke_check_for_updates"
    /\ inflight' = inflight + 1
    /\ UNCHANGED <<pc, faults, spawnResult, spawnCount, process, locked,
                   childState, killCount, killInLock, trayBuilt, windowExists,
                   visible, focused, updateResult, lateResult, closeSeen, exitRequests,
                   log>>

UpdateOutcomes == {"available", "up_to_date", "failed"}

\* The error of updater.check() is swallowed: Ok(()) whatever the outcome.
check_for_updates_swallows(o) == "Ok"

\* Lines 63-78: what check_for_updates returns for an outcome of
\* updater.check(): Ok(()) for both answers, Err(reason) for a failure.
check_for_updates(o) == IF o = "failed" THEN "Err" ELSE "Ok"

\* The test of is_update_available() is negated: the two lines are swapped.
check_for_updates_prints_swapped(o) ==
    CASE o = "available" -> "App is up to date"
      [] o = "up_to_date" -> "Update available"
      [] OTHER -> "Failed to check for updates"

\* Lines 66, 70, 75: what check_for_updates prints for an outcome.
check_for_updates_prints(o) ==
    CASE o = "available" -> "Update available"
      [] o = "up_to_date" -> "App is up to date"
      [] OTHER -> "Failed to check for updates"

\* Lines 62-78: one check_for_updates future completes with outcome o of
\* updater.check(), on the async runtime, at any point while the process
\* lives.
UpdateCompletes(o) ==
    /\ pc \notin PcDead
    /\ inflight > 0
    /\ updateResult' = check_for_updates(o)
    /\ log' = log \cup {check_for_updates_prints(o)}
    /\ inflight' = inflight - 1
    /\ lateResult' = (lateResult \/ process = "None")
    /\ UNCHANGED <<pc, faults, spawnResult, spawnCount, process, locked,
                   childState, killCount, killInLock, trayBuilt, windowExists,
                   visible, focused, closeSeen, exitRequests, event>>

UpdateComplete == \E o \in UpdateOutcomes : UpdateCompletes(o)

----------------------------------------------------------------------------
\* RunEvent::ExitRequested (lines 157-168).

\* as_ref()/as_mut() in place of take(): the Option keeps its child.
option_peek(p) == p

\* Line 162: Option::take leaves None in the mutex.
option_take(p) == "None"

\* Lines 158-161: the event is delivered and node_server.process.lock()
\* succeeds (nothing else locks the mutex and no holder panics).
ExitRequested ==
    /\ pc = "loop"
    /\ exitRequests < MaxExitRequests
    /\ ~locked
    /\ exitRequests' = exitRequests + 1
    /\ event' = "exit_requested"
    /\ locked' = TRUE
    /\ pc' = "exit_take"
    /\ UNCHANGED <<faults, spawnResult, spawnCount, process, childState,
                   killCount, killInLock, trayBuilt, windowExists, visible,
                   focused, inflight, updateResult, lateResult, closeSeen, log>>

\* Line 162: if let Some(mut child) = process.take().
ExitTake ==
    /\ pc = "exit_take"
    /\ IF process = "Some"
         THEN /\ process' = option_take(process)
              /\ pc' = "exit_kill"
         ELSE /\ process' = process
              /\ pc' = "exit_unlock"
    /\ UNCHANGED <<faults, spawnResult, spawnCount, locked, childState,
                   killCount, killInLock, trayBuilt, windowExists, visible,
                   focused, inflight, updateResult, lateResult, closeSeen, exitRequests,
                   event, log>>

\* child.kill().unwrap() in place of .ok(): a failed kill panics.
kill_unwrap(r) == IF r = "Err" THEN "panicked" ELSE "exit_unlock"

\* Line 163: .ok() drops the result of kill(), so the handler goes on to the
\* end of the block whatever the result.
kill_ok(r) == "exit_unlock"

\* Line 163: child.kill().ok(): one kill attempt, its result dropped.
ExitKill ==
    /\ pc = "exit_kill"
    /\ \E r \in Results :
        /\ childState' = (IF r = "Ok" /\ childState = "running" THEN "killed"
                                                                 ELSE childState)
        /\ pc' = kill_ok(r)
    /\ killCount' = killCount + 1
    /\ killInLock' = (IF locked THEN killInLock + 1 ELSE killInLock)
    /\ UNCHANGED <<faults, spawnResult, spawnCount, process, locked,
                   trayBuilt, windowExists, visible, focused, inflight,
                   updateResult, lateResult, closeSeen, exitRequests, event, log>>

\* Line 165: the MutexGuard goes out of scope.
ExitUnlock ==
    /\ pc = "exit_unlock"
    /\ locked' = FALSE
    /\ pc' = "exit_prevent"
    /\ UNCHANGED <<faults, spawnResult, spawnCount, process, childState,
                   killCount, killInLock, trayBuilt, windowExists, visible,
                   focused, inflight, updateResult, lateResult, closeSeen, exitRequests,
                   event, log>>

\* Lines 166-167: api.prevent_exit(); the handler returns and the event
\* loop, told not to exit, goes on.
ExitPreventExit ==
    /\ pc = "exit_prevent"
    /\ pc' = "loop"
    /\ UNCHANGED <<faults, spawnResult, spawnCount, process, locked,
                   childState, killCount, killInLock, trayBuilt, windowExists,
                   visible, focused, inflight, updateResult, lateResult, closeSeen,
                   exitRequests, event, log>>

\* Lines 162-167: the steps of the handler after the lock is acquired.
CleanupSteps == ExitTake \/ ExitKill \/ ExitUnlock \/ ExitPreventExit

ExitHandler == ExitRequested \/ CleanupSteps

\* The Node.js server ends by itself; the shell never polls or waits for it.
ChildExits ==
    /\ childState = "running"
    /\ childState' = "exited"
    /\ UNCHANGED <<pc, faults, spawnResult, spawnCount, process, locked,
                   killCount, killInLock, trayBuilt, windowExists, visible,
                   focused, inflight, updateResult, lateResult, closeSeen, exitRequests,
                   event, log>>

Next ==
    \/ Startup
    \/ TrayLeftClick
    \/ MenuItemClick
    \/ CloseRequested
    \/ MinimizeToTray
    \/ InvokeCheckForUpdates
    \/ UpdateComplete
    \/ ExitHandler
    \/ ChildExits

Spec == Init /\ [][Next]_vars

SpecFault == InitFault /\ [][Next]_vars

----------------------------------------------------------------------------
\* Properties.

\* C1: once the tray "quit" item has ended the process (std::process::exit,
\* the only way pc becomes "exited"), exactly one kill of the service
\* process and exactly one spawn have been made in the run.
C1_QuitKillsOnce ==
    pc = "exited" => (killCount = 1 /\ spawnCount = 1)

\* C2: when the ExitRequested handler returns, terminate has been called
\* exactly once and the exit goes through: the application is Terminated.
C2_ExitRequestedCompletes ==
    [][(pc = "exit_prevent" /\ pc' # pc)
          => (killCount' = 1 /\ Lifecycle' = "Terminated")]_vars

\* C3: whenever the application is in its event loop, it has made no kill
\* and the mutex still holds the child's handle.
C3_ServiceAliveWhileRunning ==
    pc = "loop" => (process = "Some" /\ killCount = 0)

\* C4: at most one child is ever spawned, a held handle belongs to that one
\* child, and once the handle has been taken (None) it stays None.
C4_SingleHandle ==
    /\ [](spawnCount <= 1 /\ (process = "Some" => spawnCount = 1))
    /\ [][process = "None" => process' = "None"]_vars

\* C4 witness: the handle has been taken and killed and the event loop has
\* handled a tray click after that, with one spawn in the run.
C4_Witness ==
    /\ process = "None" /\ killCount = 1 /\ spawnCount = 1
    /\ pc = "loop" /\ event \in ClickIds

LifecycleOrder ==
    {<<"Uninitialized", "Running">>, <<"Running", "ShuttingDown">>,
     <<"ShuttingDown", "Terminated">>}

\* C6: every change of the lifecycle state is a step to the next state of
\* Uninitialized -> Running -> ShuttingDown -> Terminated (an abort of the
\* startup is not counted as a lifecycle step).
C6_LifecycleMonotonic ==
    [][(Lifecycle' # Lifecycle /\ Lifecycle' # "Aborted")
          => <<Lifecycle, Lifecycle'>> \in LifecycleOrder]_vars

\* C7: at most one kill is ever made; a kill is made only by the first
\* cleanup that finds a handle, which discards it; a cleanup that finds no
\* handle changes neither the handle, the kill count nor the child.
C7_TerminateIdempotent ==
    /\ [](killCount <= 1)
    /\ [][killCount' # killCount
            => (killCount = 0 /\ killCount' = 1 /\ process' = "None")]_vars
    /\ [][(ExitTake /\ process # "Some")
            => (pc' = "exit_unlock"
                /\ UNCHANGED <<process, killCount, childState>>)]_vars

\* C7 witness: the cleanup has run to its end twice and one kill was made.
C7_Witness ==
    /\ exitRequests = 2 /\ pc = "loop"
    /\ killCount = 1 /\ process = "None"

\* C8: with update checks in flight, an exit request can be taken up by the
\* event loop and each step of its cleanup can be taken (none waits for a
\* check); when the cleanup has run, the handle is gone and the kill made,
\* whatever is in flight; and a check completing after that changes neither
\* the handle, the kill count, the child nor the lifecycle state, and ends
\* no thread in a panic.
C8_ShutdownIgnoresUpdates ==
    /\ []((inflight > 0 /\ pc \notin PcStartup /\ pc \notin PcDead)
            => IF pc \in PcHandler
                 THEN ENABLED CleanupSteps
                 ELSE exitRequests < MaxExitRequests => ENABLED ExitRequested)
    /\ []((exitRequests > 0 /\ pc = "loop")
            => (process = "None" /\ killCount = 1))
    /\ [][(UpdateComplete /\ process = "None")
            => /\ UNCHANGED <<process, killCount, childState, pc>>
               /\ Lifecycle' = Lifecycle]_vars

\* C8 witness: the cleanup ran while checks were in flight, one of them has
\* completed since and another is still in flight.
C8_Witness ==
    /\ exitRequests > 0 /\ pc = "loop" /\ killCount = 1 /\ process = "None"
    /\ lateResult /\ inflight > 0

\* C9: after a failed spawn the main thread has panicked with the
\* diagnostic, and no tray has been built, no window created or shown and no
\* event dispatched; conversely a tray, a window or a dispatched event means
\* the spawn succeeded and the sleep is over.
C9_SpawnFailureAborts ==
    /\ spawnResult = "Err"
         => /\ pc = "panicked"
            /\ "Failed to start Node.js server" \in log
            /\ ~trayBuilt /\ ~windowExists /\ ~visible
            /\ event = "none" /\ inflight = 0
    /\ (trayBuilt \/ windowExists \/ visible \/ event # "none"
          \/ Lifecycle \in {"Running", "ShuttingDown", "Terminated"})
         => /\ spawnResult = "Ok" /\ spawnCount = 1
            /\ pc \notin {"start", "spawned"}

\* C9 witness: the spawn has failed and startup has aborted.
C9_Witness ==
    spawnResult = "Err" /\ pc = "panicked"

\* C10: handling a tray or window event that shows, hides or focuses the
\* main window leaves the application Running with the handle unchanged,
\* also when the window operation fails.
C10_RuntimeErrorContinues ==
    [][(\/ TrayLeftClick
        \/ CloseRequested
        \/ MinimizeToTray
        \/ (MenuItemClick /\ event' \in {"show", "hide"}))
          => (Lifecycle' = "Running" /\ process' = process)]_vars

C12_UnknownAndAutoStartIgnored ==
    [][(MenuItemClick /\ event' \in {"other", "auto_start"})
          => /\ UNCHANGED <<windowExists, visible, focused, process, killCount,
                            childState, inflight, pc>>
             /\ Lifecycle' = Lifecycle]_vars

\* C12 witness: an unknown id was clicked after "auto_start" had been, with
\* a check in flight and the window hidden, and the application is Running.
C12_Witness ==
    /\ event = "other" /\ "Auto-start toggled" \in log /\ pc = "loop"
    /\ inflight > 0 /\ windowExists /\ ~visible /\ process = "Some"

\* C13: a check that finds an update prints the availability line; a check
\* that finds the build up to date adds no availability line to what has
\* been printed.
C13_AvailabilitySurfaced ==
    /\ [][UpdateCompletes("available") => "Update available" \in log']_vars
    /\ [][UpdateCompletes("up_to_date")
            => ("Update available" \in log' => "Update available" \in log)]_vars

\* C13 witness: a check has completed with Ok and the availability line,
\* and no check has reported the build up to date.
C13_Witness ==
    /\ "Update available" \in log /\ "App is up to date" \notin log
    /\ updateResult = "Ok" /\ pc = "loop"

\* C14: child.kill() is never about to be made, and has never been made,
\* with the mutex of NodeServer.process held.
C14_KillOutsideLock ==
    (pc = "exit_kill" => ~locked) /\ killInLock = 0

\* C15: the kill step goes on to the end of the handler with the handle
\* already None and nothing printed, whatever kill() returned; after a kill
\* that failed (one kill made, the child still running) the handle is None;
\* no step makes a kill once one has been made; and the rest of the handler
\* can always be taken, up to its return to the event loop.
C15_SingleBestEffortKill ==
    /\ [][ExitKill
            => /\ pc' = "exit_unlock" /\ process = "None" /\ process' = "None"
               /\ killCount' = 1 /\ log' = log]_vars
    /\ []((killCount = 1 /\ childState = "running") => process = "None")
    /\ [][killCount >= 1 => killCount' = killCount]_vars
    /\ [](pc \in {"exit_unlock", "exit_prevent"} => ENABLED CleanupSteps)
    /\ [][ExitPreventExit => pc' = "loop"]_vars

\* C15 witness: the one kill failed (the child is still running), and a
\* second exit request has been handled to its end without another kill.
C15_Witness ==
    /\ killCount = 1 /\ childState = "running" /\ process = "None"
    /\ exitRequests = 2 /\ pc = "loop"

\* C16: the completion of an update check, whatever its outcome, changes
\* neither the handle, the kill count, the child, the window nor the
\* position of the main thread, and starts no new check; a failed check
\* returns Err to its caller and prints the failure; starting a check only
\* adds one check in flight; and with a check in flight the event loop can
\* take every tray and window event.
C16_UpdateCheckHarmless ==
    /\ [][UpdateComplete
            => /\ UNCHANGED <<process, killCount, childState, windowExists,
                              visible, focused, pc>>
               /\ Lifecycle' = Lifecycle
               /\ inflight' = inflight - 1]_vars
    /\ [][UpdateCompletes("failed")
            => /\ updateResult' = "Err"
               /\ "Failed to check for updates" \in log'
               /\ (Panic \in log' => Panic \in log)]_vars
    /\ [][((MenuItemClick /\ event' = "update") \/ InvokeCheckForUpdates)
            => /\ UNCHANGED <<process, killCount, childState, windowExists,
                              visible, focused, pc>>
               /\ inflight' = inflight + 1]_vars
    /\ []((inflight > 0 /\ pc = "loop")
            => /\ ENABLED TrayLeftClick
               /\ ENABLED MenuItemClick
               /\ ENABLED CloseRequested
               /\ ENABLED MinimizeToTray)

\* C16 witness: a check has failed and returned Err, another is in flight,
\* and the event loop has handled a left-click: the application is Running
\* with the window shown and the handle held.
C16_Witness ==
    /\ updateResult = "Err" /\ "Failed to check for updates" \in log
    /\ inflight > 0 /\ event = "left_click" /\ pc = "loop"
    /\ visible /\ focused /\ process = "Some" /\ killCount = 0

====
